---- MODULE Spec2Model ----
(***************************************************************************)
(* A model of easyuse_nacos.py: the NacosConfigProperty descriptor (read   *)
(* protocol, cache and watcher callback), the process-wide                 *)
(* nacos_client_pool, NacosConfig.__init_subclass__ (class wiring) and the *)
(* NacosConfigMeta write guard.                                            *)
(*                                                                         *)
(* Python values are modelled as records [kind, s, n] so that strings,     *)
(* integers, None, callables and validated objects stay distinguishable.   *)
(* Raw remote contents and connection parameters are strings; Python None  *)
(* among them is the marker NoneVal, which str() turns into "None".        *)
(***************************************************************************)
EXTENDS Integers, Sequences, FiniteSets, TLC

\* ------------------------------------------------------------------------
\* Python values
\* ------------------------------------------------------------------------

\* Python's None where a string may stand (remote content, parameters).
NoneVal == "<None>"

\* Truthiness of an optional string: None and "" are falsy.
TruthyStr(s) == s # NoneVal /\ s # ""

\* str(x) of an optional string: str(None) is the text "None".
Str(x) == IF x = NoneVal THEN "None" ELSE x

PyNone == [kind |-> "none", s |-> "", n |-> 0]
PyStr(x) == [kind |-> "str", s |-> x, n |-> 0]
PyInt(i) == [kind |-> "int", s |-> "", n |-> i]
\* a zero-argument factory whose call returns the integer i
PyCallable(i) == [kind |-> "callable", s |-> "", n |-> i]
\* a validated Person(age = i)
PyObj(i) == [kind |-> "obj", s |-> "Person", n |-> i]
\* a parsed JSON object {"age": i}
PyDict(i) == [kind |-> "dict", s |-> "", n |-> i]
\* an exception leaving the operation
PyRaise(name) == [kind |-> "raise", s |-> name, n |-> 0]

\* bool(v) of a Python value
Truthy(v) ==
    CASE v.kind = "none" -> FALSE
      [] v.kind = "str" -> v.s # ""
      [] v.kind = "int" -> v.n # 0
      [] OTHER -> TRUE

\* callable(v)
Callable(v) == v.kind = "callable"

\* ------------------------------------------------------------------------
\* Inputs
\* ------------------------------------------------------------------------

\* The number of application threads calling into the module.
NThreads == 2
Threads == 1 .. NThreads
Classes == {"A", "B"}

\* Remote contents of the data id: absent, empty, an integer text, a text
\* that is neither a number nor JSON, and a JSON object.
Raw == {NoneVal, "", "42", "not-a-number", "{\"age\": 5}"}

\* default_value arguments of NacosConfigProperty(...): no default, a falsy
\* literal, a truthy literal, a factory.
Defaults == {PyNone, PyInt(0), PyInt(7), PyCallable(9)}

\* annotation of the property attribute in the class body: the class has no
\* annotations at all, only another attribute is annotated, or the property
\* is annotated int or Person (a pydantic BaseModel).
Annots == {"none", "other", "int", "Person"}

MkTuple(a, ns, u, p, ak, sk) ==
    [server_address |-> a, namespace_id |-> ns, username |-> u,
     password |-> p, ak |-> ak, sk |-> sk]

BaseTuple == MkTuple("a", "b", NoneVal, NoneVal, NoneVal, NoneVal)

\* Connection parameters: BaseTuple and tuples that differ from it in one
\* field, an absent optional field against a supplied string included.
Tuples ==
    {BaseTuple}
    \cup {[BaseTuple EXCEPT !.server_address = "ab"],
          [BaseTuple EXCEPT !.namespace_id = "c"]}
    \cup {[BaseTuple EXCEPT ![f] = v] :
             f \in {"username", "password", "ak", "sk"}, v \in {"None", "u"}}

\* The NACOS_* environment variables: unset (NACOS_SERVER missing) or set.
NoEnv == MkTuple(NoneVal, NoneVal, NoneVal, NoneVal, NoneVal, NoneVal)
Envs == {NoEnv, BaseTuple, [BaseTuple EXCEPT !.namespace_id = NoneVal]}

\* ------------------------------------------------------------------------
\* Pure functions of the source
\* ------------------------------------------------------------------------

\* cache_key: the six parameters joined with no separator, the optional
\* ones through str().
cache_key(server_address, namespace_id, username, password, ak, sk) ==
    server_address \o namespace_id \o Str(username) \o Str(password)
        \o Str(ak) \o Str(sk)

KeyOf(tup) ==
    cache_key(tup.server_address, tup.namespace_id, tup.username,
              tup.password, tup.ak, tup.sk)

\* json.loads on the remote contents of Raw: a number text gives a number, an
\* object text a dict, anything else raises.
JsonLoads(raw) ==
    CASE raw = "42" -> PyInt(42)
      [] raw = "{\"age\": 5}" -> PyDict(5)
      [] OTHER -> PyRaise("JSONDecodeError")

\* pydantic's validation of one field value against the annotation: int
\* accepts an int or a numeric text, Person accepts a dict with an age.
Validate(shape, v) ==
    CASE shape = "int" /\ v.kind = "int" -> v
      [] shape = "int" /\ v.kind = "str" /\ v.s = "42" -> PyInt(42)
      [] shape = "Person" /\ v.kind = "dict" -> PyObj(v.n)
      [] OTHER -> PyRaise("ValidationError")

\* issubclass(annotation, BaseModel)
IsBaseModel(shape) == shape = "Person"

NoModel == [shape |-> "none", dflt |-> "none", dval |-> PyNone]

\* The create_model call of __init_subclass__: a truthy callable default
\* becomes a default_factory, a truthy literal the field default, and a
\* falsy default (None, 0) makes the field required.
CreateModel(shape, default_value) ==
    IF Truthy(default_value)
    THEN IF Callable(default_value)
         THEN [shape |-> shape, dflt |-> "factory", dval |-> default_value]
         ELSE [shape |-> shape, dflt |-> "literal", dval |-> default_value]
    ELSE [shape |-> shape, dflt |-> "required", dval |-> PyNone]

\* dynamic_model(): the model built from no input, read back through
\* getattr. A required field raises; defaults are not validated.
ModelDefault(m) ==
    CASE m.dflt = "factory" -> PyInt(m.dval.n)
      [] m.dflt = "literal" -> m.dval
      [] OTHER -> PyRaise("ValidationError")

\* get_default_value returning a callable default uncalled.
get_default_value_Uncalled(default_value) == default_value

\* get_default_value: the result of calling a callable default, else the
\* default itself.
get_default_value(default_value) ==
    IF Callable(default_value) THEN PyInt(default_value.n) ELSE default_value

\* Derive with the validation inside the try block: a failed validation is
\* swallowed and the default returned.
Derive_Swallow(p, val) ==
    LET dflt == IF p.dynamic_model # NoModel
                THEN ModelDefault(p.dynamic_model)
                ELSE get_default_value(p.default_value)
    IN IF TruthyStr(val)
       THEN IF p.dynamic_model # NoModel
            THEN LET v == IF p.should_json_data THEN JsonLoads(val)
                          ELSE PyStr(val)
                     w == IF v.kind = "raise" THEN v
                          ELSE Validate(p.dynamic_model.shape, v)
                 IN IF w.kind = "raise" THEN dflt ELSE w
            ELSE PyStr(val)
       ELSE dflt

\* The second half of __get__: what the read returns (or raises) for the
\* raw value val.
Derive(p, val) ==
    IF TruthyStr(val)
    THEN IF p.dynamic_model # NoModel
         THEN LET v == IF p.should_json_data THEN JsonLoads(val)
                       ELSE PyStr(val)
              IN IF v.kind = "raise" THEN v
                 ELSE Validate(p.dynamic_model.shape, v)
         ELSE PyStr(val)
    ELSE IF p.dynamic_model # NoModel
         THEN ModelDefault(p.dynamic_model)
         ELSE get_default_value(p.default_value)

\* CacheHit with the flag test inverted.
CacheHit_Inverted(p) == ~p.read_from_cache /\ TruthyStr(p.cache_value)

\* The cache test always failing.
CacheHit_Never(p) == p.read_from_cache /\ ~p.read_from_cache

\* CacheHit without the flag test.
CacheHit_AnyProperty(p) == TruthyStr(p.cache_value)

\* The cache test of __get__: read_from_cache and a truthy cache_value.
CacheHit(p) == p.read_from_cache /\ TruthyStr(p.cache_value)

\* ------------------------------------------------------------------------
\* State
\* ------------------------------------------------------------------------

VARIABLES
    decl,       \* the program text: each class statement's keyword
                \* arguments, annotations and NacosConfigProperty(...) call
    env,        \* the NACOS_* environment variables
    py310,      \* the interpreter is Python 3.10 or later, where every class
                \* has an __annotations__ attribute of its own
    remote,     \* per server: the content of the configuration item, or
                \* Opaque when the run leaves the service unconstrained
    pending,    \* the <<client, class>> watchers the service still owes a
                \* notification of the latest change
    changed,    \* history, per class: the content on the server of the
                \* property's wired client changed while cache_value was set
    clsState,   \* per class: undeclared, declaring, ready or failed
    clsDict,    \* per class: its __dict__ (attribute name -> value)
    clsClient,  \* per class: the client __init_subclass__ resolved
    prop,       \* per class: the fields of its NacosConfigProperty
    pool,       \* nacos_client_pool, as its <<key, client>> items
    clients,    \* the nacos.NacosClient(...) calls made so far, in order
    watchers,   \* add_config_watcher registrations: <<client, class>>
    resolved,   \* history: <<tuple, client>> of every pool resolution
    lastPush,   \* history, per class: content of the latest update_cache_val
    intact,     \* history, per class: no __get__ stored since that update
                \* (loc[t].fresh: the __get__ of t started after an update
                \* with truthy content and no update came since;
                \* loc[t].clean: intact held when it started;
                \* loc[t].sawCache: its cache test found a truthy cache_value;
                \* loc[t].stale: an update came after its get_config returned;
                \* loc[t].clobber: its store replaced the non-empty content of
                \* such an update; loc[t].quiet: it started after the latest change of
                \* the content, with no notification owed)
    pc,         \* per thread: its position
    loc         \* per thread: its local variables

vars == <<decl, env, py310, remote, pending, changed, clsState, clsDict,
          clsClient, prop, pool, clients, watchers, resolved, lastPush,
          intact, pc, loc>>

\* self._nacos_client = None; a client built by the caller (passed as
\* nacos_client=...); clients built by this module are 1, 2, ... in the order
\* of their construction.
NoClient == 0
Prebuilt == -1

NoPush == "<no update>"
PropAttr == "<NacosConfigProperty>"
Unset == "<unset>"
AttrNames == {"x", "y", "z"}
AttrValues == {"v1"}

\* NacosConfigProperty.__init__
NewProp(default_value, read_from_cache) ==
    [exists |-> TRUE, default_value |-> default_value, attr_name |-> NoneVal,
     nacos_client |-> NoClient, dynamic_model |-> NoModel,
     should_json_data |-> FALSE, read_from_cache |-> read_from_cache,
     cache_value |-> NoneVal]

NoProp == [NewProp(PyNone, FALSE) EXCEPT !.exists = FALSE]

Idle ==
    [op |-> "none", cls |-> "none", attr |-> "", ret |-> "",
     tup |-> NoEnv, key |-> "", client |-> NoClient, val |-> NoneVal,
     result |-> PyNone, fetched |-> FALSE, fetchErr |-> FALSE,
     noClient |-> FALSE, built |-> 0, fresh |-> FALSE, clean |-> FALSE,
     sawCache |-> FALSE, stale |-> FALSE, clobber |-> FALSE,
     quiet |-> FALSE]

\* ------------------------------------------------------------------------
\* Programs: the class statements the run executes
\* ------------------------------------------------------------------------

Decl(hasProp, wiring, params, annot, default, cache) ==
    [hasProp |-> hasProp, wiring |-> wiring, params |-> params,
     annot |-> annot, default |-> default, cache |-> cache,
     base |-> "NacosConfig"]

\* The second class declares no property; it only resolves a client.
Second(wiring, params) == Decl(FALSE, wiring, params, "none", PyNone, FALSE)

\* class B(A, ...): a subclass of the class that owns the property; with
\* annot "Person" its body re-annotates x (x: Person) without assigning it.
Sub(wiring, params, annot) ==
    [Second(wiring, params) EXCEPT !.base = "A", !.annot = annot]

\* Two classes wired by parameters: every tuple beside BaseTuple, a tuple
\* that differs from it in an absent field against a supplied string, and
\* one that differs in a supplied field.
PoolPrograms ==
    {[c \in Classes |->
        IF c = "A" THEN Decl(TRUE, "params", ta, "int", PyInt(7), FALSE)
        ELSE Second("params", tb)] :
     ta \in Tuples,
     tb \in {BaseTuple, [BaseTuple EXCEPT !.username = "None"],
             [BaseTuple EXCEPT !.password = "u"]}}

\* One class in every combination of wiring, annotation, default and cache
\* flag, beside a second class wired by parameters.
ReadPrograms ==
    {[c \in Classes |->
        IF c = "A" THEN Decl(TRUE, w, BaseTuple, an, d, ca)
        ELSE Second("params", BaseTuple)] :
     w \in {"none", "client", "params", "both"}, an \in Annots,
     d \in Defaults, ca \in BOOLEAN}

\* The class that owns the property and a subclass of it, each wired by a
\* client or by parameters of its own.
SubPrograms ==
    {[c \in Classes |->
        IF c = "A" THEN Decl(TRUE, wa, BaseTuple, an, PyInt(7), ca)
        ELSE Sub(wb, [BaseTuple EXCEPT !.password = "u"], bn)] :
     wa \in {"client", "params"}, an \in {"none", "int"}, ca \in BOOLEAN,
     wb \in {"client", "params"}, bn \in {"none", "Person"}}

Programs == PoolPrograms \cup ReadPrograms \cup SubPrograms

\* The programs run under every interleaving of two threads.
CorePrograms ==
    {[c \in Classes |->
        IF c = "A" THEN Decl(TRUE, "params", BaseTuple, "int", PyInt(7), TRUE)
        ELSE Second("params", BaseTuple)],
     [c \in Classes |->
        IF c = "A" THEN Decl(TRUE, "none", BaseTuple, "none", PyCallable(9), TRUE)
        ELSE Second("client", BaseTuple)],
     [c \in Classes |->
        IF c = "A" THEN Decl(TRUE, "client", BaseTuple, "Person", PyInt(0), FALSE)
        ELSE Second("params", [BaseTuple EXCEPT !.username = "None"])]}

\* The content of a configuration item the run does not constrain.
Opaque == "<any content>"

\* The servers: those of the parameter tuples and the one the client built
\* by the caller talks to.
Servers == {"a", "ab", "e"}

\* The interpreters that run the program: both where a class body without
\* annotations is wired (the only place they differ, line 193).
Interpreters(d) ==
    IF \E c \in Classes : /\ d[c].hasProp
                          /\ d[c].wiring # "none"
                          /\ d[c].annot = "none"
    THEN BOOLEAN ELSE {FALSE}

Start ==
    /\ pending = {}
    /\ changed = [c \in Classes |-> FALSE]
    /\ clsState = [c \in Classes |-> "undeclared"]
    /\ clsDict = [c \in Classes |-> [a \in AttrNames |-> Unset]]
    /\ clsClient = [c \in Classes |-> NoClient]
    /\ prop = [c \in Classes |-> NoProp]
    /\ pool = {}
    /\ clients = << >>
    /\ watchers = {}
    /\ resolved = {}
    /\ lastPush = [c \in Classes |-> NoPush]
    /\ intact = [c \in Classes |-> FALSE]
    /\ pc = [t \in Threads |-> "idle"]
    /\ loc = [t \in Threads |-> Idle]

Init ==
    /\ decl \in CorePrograms
    /\ env \in {NoEnv, BaseTuple}
    /\ py310 \in Interpreters(decl)
    /\ remote = [s \in Servers |-> Opaque]
    /\ Start

SeqInit ==
    /\ decl \in Programs
    /\ env \in Envs
    /\ py310 \in Interpreters(decl)
    /\ remote = [s \in Servers |-> Opaque]
    /\ Start

\* ------------------------------------------------------------------------
\* nacos_client_pool
\* ------------------------------------------------------------------------

\* The membership test always failing.
PoolHas_Never(pl, key) == \E e \in pl : e[1] = key /\ e[2] = NoClient

\* hash_key in nacos_client_pool
PoolHas(pl, key) == \E e \in pl : e[1] = key

\* nacos_client_pool[hash_key]
PoolGet(pl, key) == (CHOOSE e \in pl : e[1] = key)[2]

\* nacos_client_pool[hash_key] = client
PoolPut(pl, key, client) == {e \in pl : e[1] # key} \cup {<<key, client>>}

\* The guard both resolution paths share: a server address and a namespace
\* id, both truthy.
Complete(tup) == TruthyStr(tup.server_address) /\ TruthyStr(tup.namespace_id)

\* _get_nacos_client up to the client construction: the wired client if
\* there is one, else the pooled client of the environment's key, else a
\* client to construct, else the exception.
GetNacosClient(p) ==
    IF p.nacos_client # NoClient
    THEN [kind |-> "wired", client |-> p.nacos_client, key |-> ""]
    ELSE IF Complete(env)
         THEN IF PoolHas(pool, KeyOf(env))
              THEN [kind |-> "pooled", client |-> PoolGet(pool, KeyOf(env)),
                    key |-> KeyOf(env)]
              ELSE [kind |-> "construct", client |-> NoClient,
                    key |-> KeyOf(env)]
         ELSE [kind |-> "raise", client |-> NoClient, key |-> ""]

\* ------------------------------------------------------------------------
\* The class statement: class body, __set_name__, __init_subclass__
\* ------------------------------------------------------------------------

\* The class statement raised: no class object is bound.
FailClass(t, c, err) ==
    /\ clsState' = [clsState EXCEPT ![c] = "failed"]
    /\ pc' = [pc EXCEPT ![t] = "done"]
    /\ loc' = [loc EXCEPT ![t].result = PyRaise(err)]

\* The class body runs: NacosConfigProperty(...) is constructed.
BeginClass(t, c) ==
    /\ pc[t] = "idle"
    /\ clsState[c] = "undeclared"
    /\ decl[c].base # "NacosConfig" => clsState[decl[c].base] = "ready"
    /\ clsState' = [clsState EXCEPT ![c] = "declaring"]
    /\ prop' = [prop EXCEPT ![c] =
                  IF decl[c].hasProp
                  THEN NewProp(decl[c].default, decl[c].cache) ELSE @]
    /\ pc' = [pc EXCEPT ![t] =
                IF decl[c].hasProp THEN "set_name" ELSE "init_subclass"]
    /\ loc' = [loc EXCEPT ![t] = [Idle EXCEPT !.op = "class", !.cls = c]]
    /\ UNCHANGED <<decl, env, py310, remote, pending, changed, clsDict,
                   clsClient, pool, clients, watchers, resolved, lastPush,
                   intact>>

\* __set_name__ and register_update_callback up to the watcher call.
SetName(t) ==
    /\ pc[t] = "set_name"
    /\ LET c == loc[t].cls
           g == GetNacosClient(prop[c])
       IN /\ prop' = [prop EXCEPT ![c].attr_name = "x"]
          /\ IF ~prop[c].read_from_cache
             THEN /\ pc' = [pc EXCEPT ![t] = "init_subclass"]
                  /\ UNCHANGED <<loc, clsState, resolved>>
             ELSE CASE g.kind = "raise" ->
                         /\ FailClass(t, c, "Exception")
                         /\ UNCHANGED resolved
                    [] g.kind = "construct" ->
                         /\ pc' = [pc EXCEPT ![t] = "construct"]
                         /\ loc' = [loc EXCEPT ![t].key = g.key,
                                               ![t].tup = env,
                                               ![t].ret = "watch"]
                         /\ UNCHANGED <<clsState, resolved>>
                    [] OTHER ->
                         /\ pc' = [pc EXCEPT ![t] = "watch"]
                         /\ loc' = [loc EXCEPT ![t].client = g.client]
                         /\ resolved' =
                              IF g.kind = "pooled"
                              THEN resolved \cup {<<env, g.client>>}
                              ELSE resolved
                         /\ UNCHANGED clsState
    /\ UNCHANGED <<decl, env, py310, remote, pending, changed, clsDict,
                   clsClient, pool, clients, watchers, lastPush, intact>>

\* nacos.NacosClient(...) and nacos_client_pool[hash_key] = client, in
\* _get_nacos_client and in __init_subclass__.
Construct(t) ==
    /\ pc[t] = "construct"
    /\ LET h == Len(clients) + 1
       IN /\ clients' = Append(clients, loc[t].tup)
          /\ pool' = PoolPut(pool, loc[t].key, h)
          /\ resolved' = resolved \cup {<<loc[t].tup, h>>}
          /\ loc' = [loc EXCEPT ![t].client = h, ![t].built = @ + 1]
    /\ pc' = [pc EXCEPT ![t] = loc[t].ret]
    /\ UNCHANGED <<decl, env, py310, remote, pending, changed, clsState,
                   clsDict, clsClient, prop, watchers, lastPush, intact>>

\* add_config_watcher(attr_name, group, update_cache_val) on the client
\* register_update_callback obtained; the call may raise.
Watch(t) ==
    /\ pc[t] = "watch"
    /\ LET c == loc[t].cls
       IN \/ /\ watchers' = watchers \cup {<<loc[t].client, c>>}
             /\ pc' = [pc EXCEPT ![t] = "init_subclass"]
             /\ loc' = [loc EXCEPT ![t].client = NoClient, ![t].key = "",
                                   ![t].tup = NoEnv, ![t].ret = ""]
             /\ UNCHANGED clsState
          \/ /\ FailClass(t, c, "NacosException")
             /\ UNCHANGED watchers
    /\ UNCHANGED <<decl, env, py310, remote, pending, changed, clsDict,
                   clsClient, prop, pool, clients, resolved, lastPush,
                   intact>>

\* The class object exists: its __dict__ holds the property and a plain
\* attribute.
ClassDict(c) ==
    [a \in AttrNames |->
        CASE a = "x" /\ decl[c].hasProp -> PropAttr
          [] a = "y" -> "v0"
          [] OTHER -> Unset]

\* __init_subclass__ up to the client construction (lines 181-188).
InitSubclass(t) ==
    /\ pc[t] = "init_subclass"
    /\ LET c == loc[t].cls
           d == decl[c]
           nacos_client == IF d.wiring \in {"client", "both"}
                           THEN Prebuilt ELSE NoClient
           params == IF d.wiring \in {"params", "both"}
                     THEN d.params ELSE NoEnv
       IN IF nacos_client # NoClient \/ Complete(params)
          THEN IF nacos_client # NoClient
               THEN /\ pc' = [pc EXCEPT ![t] = "wire"]
                    /\ loc' = [loc EXCEPT ![t].client = nacos_client]
                    /\ UNCHANGED <<clsState, clsDict, resolved>>
               ELSE IF PoolHas(pool, KeyOf(params))
                    THEN /\ pc' = [pc EXCEPT ![t] = "wire"]
                         /\ loc' = [loc EXCEPT
                                      ![t].client = PoolGet(pool, KeyOf(params)),
                                      ![t].key = KeyOf(params),
                                      ![t].tup = params]
                         /\ resolved' = resolved \cup
                               {<<params, PoolGet(pool, KeyOf(params))>>}
                         /\ UNCHANGED <<clsState, clsDict>>
                    ELSE /\ pc' = [pc EXCEPT ![t] = "construct"]
                         /\ loc' = [loc EXCEPT ![t].key = KeyOf(params),
                                               ![t].tup = params,
                                               ![t].ret = "wire"]
                         /\ UNCHANGED <<clsState, clsDict, resolved>>
          ELSE /\ clsState' = [clsState EXCEPT ![c] = "ready"]
               /\ clsDict' = [clsDict EXCEPT ![c] = ClassDict(c)]
               /\ pc' = [pc EXCEPT ![t] = "done"]
               /\ UNCHANGED <<loc, resolved>>
    /\ UNCHANGED <<decl, env, py310, remote, pending, changed, clsClient,
                   prop, pool, clients, watchers, lastPush, intact>>

\* hasattr(cls, '__annotations__') true of every class under every
\* interpreter.
HasAnnotations_Always(c) == decl[c].annot \in Annots

\* hasattr(cls, '__annotations__'): true of every class from Python 3.10 on;
\* before, true when the class body or that of a base class has annotations.
HasAnnotations(c) ==
    \/ py310
    \/ decl[c].annot # "none"
    \/ decl[c].base # "NacosConfig" /\ decl[decl[c].base].annot # "none"

\* cls.__annotations__ at the key of the property: the class's own
\* annotations, or before Python 3.10 those it inherits when it has none.
AnnotationOf(c) ==
    IF decl[c].annot # "none" THEN decl[c].annot
    ELSE IF ~py310 /\ decl[c].base # "NacosConfig"
         THEN decl[decl[c].base].annot
         ELSE "none"

\* key in anontations
Annotated(c) == AnnotationOf(c) \in {"int", "Person"}

\* The loop also visiting the properties the class inherits.
OwnProps_Inherited(c) ==
    {q \in Classes : decl[q].hasProp /\ (q = c \/ q = decl[c].base)}

\* for key, attr in cls.__dict__.items() with isinstance(attr,
\* NacosConfigProperty): the properties the class body itself declares,
\* named by their owning class.
OwnProps(c) == {q \in Classes : decl[q].hasProp /\ q = c}

\* The loop body with attr._nacos_client = client moved under the test
\* key in anontations.
WireProp_AnnotatedOnly(p, c, client) ==
    [p EXCEPT
       !.nacos_client = IF Annotated(c) THEN client ELSE @,
       !.dynamic_model =
           IF Annotated(c) THEN CreateModel(AnnotationOf(c), p.default_value)
           ELSE @,
       !.should_json_data =
           IF Annotated(c) /\ IsBaseModel(AnnotationOf(c)) THEN TRUE ELSE @]

\* The loop body of __init_subclass__ for one NacosConfigProperty.
WireProp(p, c, client) ==
    [p EXCEPT
       !.nacos_client = client,
       !.dynamic_model =
           IF Annotated(c) THEN CreateModel(AnnotationOf(c), p.default_value)
           ELSE @,
       !.should_json_data =
           IF Annotated(c) /\ IsBaseModel(AnnotationOf(c)) THEN TRUE ELSE @]

\* __init_subclass__ from the annotations test on (lines 193-208).
Wire(t) ==
    /\ pc[t] = "wire"
    /\ LET c == loc[t].cls
       IN /\ clsClient' = [clsClient EXCEPT ![c] = loc[t].client]
          /\ prop' = [q \in Classes |->
                        IF HasAnnotations(c) /\ q \in OwnProps(c)
                        THEN WireProp(prop[q], c, loc[t].client)
                        ELSE prop[q]]
          /\ clsState' = [clsState EXCEPT ![c] = "ready"]
          /\ clsDict' = [clsDict EXCEPT ![c] = ClassDict(c)]
    /\ pc' = [pc EXCEPT ![t] = "done"]
    /\ UNCHANGED <<decl, env, py310, remote, pending, changed, pool, clients,
                   watchers, resolved, lastPush, intact, loc>>

\* ------------------------------------------------------------------------
\* NacosConfigProperty.__get__ and update_cache_val
\* ------------------------------------------------------------------------

\* __get__ up to the get_config call: the cache test, then on a miss
\* _get_nacos_client, whose exception __get__ catches (val = None).
ReadBegin(t, c) ==
    /\ pc[t] = "idle"
    /\ clsState[c] = "ready"
    /\ prop[c].exists
    /\ LET p == prop[c]
           g == GetNacosClient(p)
           l == [Idle EXCEPT !.op = "read", !.cls = c,
                             !.fresh = lastPush[c] # NoPush
                                        /\ TruthyStr(lastPush[c]),
                             !.clean = intact[c],
                             !.sawCache = TruthyStr(p.cache_value),
                             !.quiet = pending = {} /\ changed[c]]
       IN IF CacheHit(p)
          THEN /\ pc' = [pc EXCEPT ![t] = "load"]
               /\ loc' = [loc EXCEPT ![t] = l]
               /\ UNCHANGED resolved
          ELSE CASE g.kind = "raise" ->
                      /\ pc' = [pc EXCEPT ![t] = "done"]
                      /\ loc' = [loc EXCEPT ![t] =
                                   [l EXCEPT !.noClient = TRUE,
                                             !.result = Derive(p, NoneVal)]]
                      /\ UNCHANGED resolved
                 [] g.kind = "construct" ->
                      /\ pc' = [pc EXCEPT ![t] = "construct"]
                      /\ loc' = [loc EXCEPT ![t] =
                                   [l EXCEPT !.key = g.key, !.tup = env,
                                             !.ret = "fetch"]]
                      /\ UNCHANGED resolved
                 [] OTHER ->
                      /\ pc' = [pc EXCEPT ![t] = "fetch"]
                      /\ loc' = [loc EXCEPT ![t] =
                                   [l EXCEPT !.client = g.client,
                                             !.key = g.key,
                                             !.tup = IF g.kind = "pooled"
                                                     THEN env ELSE NoEnv]]
                      /\ resolved' =
                           IF g.kind = "pooled"
                           THEN resolved \cup {<<env, g.client>>}
                           ELSE resolved
    /\ UNCHANGED <<decl, env, py310, remote, pending, changed, clsState,
                   clsDict, clsClient, prop, pool, clients, watchers,
                   lastPush, intact>>

\* val = self.cache_value after the cache test passed (the attribute is read
\* a second time), then the second half of __get__.
Load(t) ==
    /\ pc[t] = "load"
    /\ LET p == prop[loc[t].cls]
       IN loc' = [loc EXCEPT ![t].val = p.cache_value,
                             ![t].result = Derive(p, p.cache_value)]
    /\ pc' = [pc EXCEPT ![t] = "done"]
    /\ UNCHANGED <<decl, env, py310, remote, pending, changed, clsState,
                   clsDict, clsClient, prop, pool, clients, watchers,
                   resolved, lastPush, intact>>

\* The server the client h talks to; the client built by the caller talks
\* to a server of its own.
ServerOf(h) == IF h = Prebuilt THEN "e" ELSE clients[h].server_address

\* What get_config on client h can return.
Served(h) ==
    IF remote[ServerOf(h)] = Opaque THEN Raw ELSE {remote[ServerOf(h)]}

\* Fetch with self.cache_value = val placed after the try statement: a
\* failed get_config stores None.
Fetch_StoreOnError(t) ==
    /\ pc[t] = "fetch"
    /\ \/ /\ \E r \in Served(loc[t].client) :
               /\ pc' = [pc EXCEPT ![t] = "store"]
               /\ loc' = [loc EXCEPT ![t].val = r, ![t].fetched = TRUE]
          /\ UNCHANGED prop
       \/ /\ pc' = [pc EXCEPT ![t] = "done"]
          /\ loc' = [loc EXCEPT ![t].fetched = TRUE, ![t].fetchErr = TRUE,
                                ![t].result = Derive(prop[loc[t].cls], NoneVal)]
          /\ prop' = [prop EXCEPT ![loc[t].cls].cache_value = NoneVal]
    /\ UNCHANGED <<decl, env, py310, remote, pending, changed, clsState,
                   clsDict, clsClient, pool, clients, watchers, resolved,
                   lastPush, intact>>

\* get_config(attr_name, group, no_snapshot=...): the remote content, None
\* when there is none, or an exception, which __get__ catches (val = None).
Fetch(t) ==
    /\ pc[t] = "fetch"
    /\ \/ \E r \in Served(loc[t].client) :
            /\ pc' = [pc EXCEPT ![t] = "store"]
            /\ loc' = [loc EXCEPT ![t].val = r, ![t].fetched = TRUE]
       \/ /\ pc' = [pc EXCEPT ![t] = "done"]
          /\ loc' = [loc EXCEPT ![t].fetched = TRUE, ![t].fetchErr = TRUE,
                                ![t].result = Derive(prop[loc[t].cls], NoneVal)]
    /\ UNCHANGED <<decl, env, py310, remote, pending, changed, clsState,
                   clsDict, clsClient, prop, pool, clients, watchers,
                   resolved, lastPush, intact>>

\* A __get__ of class c that thread t has started.
InRead(t, c) == loc[t].op = "read" /\ loc[t].cls = c

\* self.cache_value = val, then the second half of __get__.
Store(t) ==
    /\ pc[t] = "store"
    /\ LET c == loc[t].cls
       IN /\ prop' = [prop EXCEPT ![c].cache_value = loc[t].val]
          /\ intact' = [intact EXCEPT ![c] = FALSE]
          /\ loc' = [u \in Threads |->
                       IF u = t
                       THEN [loc[u] EXCEPT
                               !.result = Derive(prop[c], loc[t].val),
                               !.clean = FALSE,
                               !.clobber = /\ loc[t].stale
                                           /\ intact[c]
                                           /\ TruthyStr(prop[c].cache_value)
                                           /\ loc[t].val # prop[c].cache_value]
                       ELSE IF InRead(u, c)
                            THEN [loc[u] EXCEPT !.clean = FALSE]
                            ELSE loc[u]]
    /\ pc' = [pc EXCEPT ![t] = "done"]
    /\ UNCHANGED <<decl, env, py310, remote, pending, changed, clsState,
                   clsDict, clsClient, pool, clients, watchers, resolved,
                   lastPush>>

\* The client h calls the watcher registered for class c's property:
\* update_cache_val(data) with data['content'] = content.
OnUpdate(h, c, content) ==
    /\ <<h, c>> \in watchers
    /\ prop' = [prop EXCEPT ![c].cache_value = content]
    /\ lastPush' = [lastPush EXCEPT ![c] = content]
    /\ intact' = [intact EXCEPT ![c] = TRUE]
    /\ loc' = [t \in Threads |->
                 IF InRead(t, c)
                 THEN [loc[t] EXCEPT !.fresh = FALSE, !.clean = FALSE,
                                     !.stale = @ \/ pc[t] = "store"]
                 ELSE loc[t]]
    /\ UNCHANGED <<decl, env, py310, remote, changed, clsState,
                   clsDict, clsClient, pool, clients, watchers, resolved, pc>>

\* ------------------------------------------------------------------------
\* The write guard
\* ------------------------------------------------------------------------

\* NacosConfigProperty.__set__: instance.x = value always raises.
SetInstanceAttr(t, c, value) ==
    /\ pc[t] = "idle"
    /\ clsState[c] = "ready"
    /\ prop[c].exists
    /\ pc' = [pc EXCEPT ![t] = "done"]
    /\ loc' = [loc EXCEPT ![t] =
                 [Idle EXCEPT !.op = "set_instance", !.cls = c, !.attr = "x",
                              !.result = PyRaise("AttributeError")]]
    /\ UNCHANGED <<decl, env, py310, remote, pending, changed, clsState,
                   clsDict, clsClient, prop, pool, clients, watchers,
                   resolved, lastPush, intact>>

\* MetaGuard with the isinstance test inverted.
MetaGuard_Inverted(d, key) == d[key] # Unset /\ d[key] # PropAttr

\* The test of NacosConfigMeta.__setattr__: key in cls.__dict__ and
\* isinstance(cls.__dict__[key], NacosConfigProperty).
MetaGuard(d, key) == d[key] # Unset /\ d[key] = PropAttr

\* NacosConfigMeta.__setattr__: cls.key = value raises for a property and
\* otherwise returns, without storing anything.
SetClassAttr(t, c, key, value) ==
    /\ pc[t] = "idle"
    /\ clsState[c] = "ready"
    /\ pc' = [pc EXCEPT ![t] = "done"]
    /\ loc' = [loc EXCEPT ![t] =
                 [Idle EXCEPT !.op = "set_class", !.cls = c, !.attr = key,
                              !.result = IF MetaGuard(clsDict[c], key)
                                         THEN PyRaise("AttributeError")
                                         ELSE PyNone]]
    /\ UNCHANGED <<decl, env, py310, remote, pending, changed, clsState,
                   clsDict, clsClient, prop, pool, clients, watchers,
                   resolved, lastPush, intact>>

\* The operation has returned (or raised) to its caller.
Return(t) ==
    /\ pc[t] = "done"
    /\ pc' = [pc EXCEPT ![t] = "idle"]
    /\ loc' = [loc EXCEPT ![t] = Idle]
    /\ UNCHANGED <<decl, env, py310, remote, pending, changed, clsState,
                   clsDict, clsClient, prop, pool, clients, watchers,
                   resolved, lastPush, intact>>

\* ------------------------------------------------------------------------
\* Specifications
\* ------------------------------------------------------------------------

Step(t) ==
    \/ \E c \in Classes : BeginClass(t, c)
    \/ SetName(t)
    \/ Construct(t)
    \/ Watch(t)
    \/ InitSubclass(t)
    \/ Wire(t)
    \/ \E c \in Classes : ReadBegin(t, c)
    \/ Load(t)
    \/ Fetch(t)
    \/ Store(t)
    \/ \E c \in Classes, v \in AttrValues : SetInstanceAttr(t, c, v)
    \/ \E c \in Classes, k \in AttrNames, v \in AttrValues :
          SetClassAttr(t, c, k, v)
    \/ Return(t)

\* A client calls a watcher with whatever content the service holds.
Push ==
    /\ \E h \in {Prebuilt} \cup (1 .. Len(clients)), c \in Classes,
          content \in Raw : OnUpdate(h, c, content)
    /\ UNCHANGED pending

\* Threads interleave at every step.
Next == (\E t \in Threads : Step(t)) \/ Push

Spec == Init /\ [][Next]_vars

\* One thread at a time: an operation runs to its return before another
\* starts.
SeqNext ==
    \/ \E t \in Threads : Step(t) /\ \A u \in Threads \ {t} : pc[u] = "idle"
    \/ Push

SeqSpec == SeqInit /\ [][SeqNext]_vars

\* The service with its content: the programs that wire the property's
\* class, run against servers whose configuration item changes.
RemotePrograms ==
    {[c \in Classes |->
        IF c = "A" THEN Decl(TRUE, w, BaseTuple, "int", PyInt(7), TRUE)
        ELSE Second("params", BaseTuple)] :
     w \in {"client", "params", "both"}}

RemoteEnvs == {BaseTuple, [BaseTuple EXCEPT !.server_address = "ab"]}

RemoteRaw == {"42", "not-a-number"}

RemoteInit ==
    /\ decl \in RemotePrograms
    /\ env \in RemoteEnvs
    /\ py310 \in Interpreters(decl)
    /\ remote = [s \in Servers |-> "42"]
    /\ Start

\* The configuration item on server s is published with content v: the
\* service owes every watcher registered through a client of s a
\* notification.
RemoteChange(s, v) ==
    /\ remote[s] # v
    /\ remote' = [remote EXCEPT ![s] = v]
    /\ pending' = pending \cup {w \in watchers : ServerOf(w[1]) = s}
    /\ changed' = [c \in Classes |->
                      IF /\ prop[c].nacos_client # NoClient
                         /\ ServerOf(prop[c].nacos_client) = s
                      THEN TruthyStr(prop[c].cache_value)
                      ELSE changed[c]]
    /\ loc' = [t \in Threads |-> [loc[t] EXCEPT !.quiet = FALSE]]
    /\ UNCHANGED <<decl, env, py310, clsState, clsDict, clsClient, prop,
                   pool, clients, watchers, resolved, lastPush, intact, pc>>

\* The client h delivers the notification it owes the watcher of class c,
\* with the content its server holds now.
Notify(h, c) ==
    /\ <<h, c>> \in pending
    /\ OnUpdate(h, c, remote[ServerOf(h)])
    /\ pending' = pending \ {<<h, c>>}

RemoteNext ==
    \/ \E t \in Threads : Step(t) /\ \A u \in Threads \ {t} : pc[u] = "idle"
    \/ \E s \in Servers, v \in RemoteRaw : RemoteChange(s, v)
    \/ \E h \in 1 .. Len(clients), c \in Classes : Notify(h, c)

RemoteSpec == RemoteInit /\ [][RemoteNext]_vars

\* ------------------------------------------------------------------------
\* Properties
\* ------------------------------------------------------------------------

\* Thread t has completed a __get__ and not yet returned.
ReadDone(t) == pc[t] = "done" /\ loc[t].op = "read"

\* C1 as stated: a read() of a cacheEnabled property that starts after
\* onUpdate delivered non-empty content c, with no later update, returns the
\* value derived from c and does not call fetch.
C1_ReadAfterUpdate ==
    \A t \in Threads :
        (ReadDone(t) /\ loc[t].fresh) =>
            /\ ~loc[t].fetched
            /\ loc[t].result = Derive(prop[loc[t].cls], lastPush[loc[t].cls])

\* C1 amended: the same, provided no read() that missed the cache stores
\* its fetched value between the delivery and the return of the read.
C1_ReadAfterUpdateNoStore ==
    \A t \in Threads :
        (ReadDone(t) /\ loc[t].fresh /\ loc[t].clean) =>
            /\ ~loc[t].fetched
            /\ loc[t].result = Derive(prop[loc[t].cls], lastPush[loc[t].cls])

\* A read served from a delivered "42" by a property with an int binding.
C1_Witness ==
    \E t \in Threads :
        /\ ReadDone(t) /\ loc[t].fresh /\ loc[t].clean
        /\ lastPush[loc[t].cls] = "42"
        /\ loc[t].result = PyInt(42)

\* C2 as stated: however resolutions of a key interleave, the client
\* constructor is invoked at most once for the key and all resolutions of
\* the same tuple obtain the same handle.
C2_OneConstructionPerKey ==
    /\ \A i, j \in 1 .. Len(clients) :
          KeyOf(clients[i]) = KeyOf(clients[j]) => i = j
    /\ \A r1, r2 \in resolved : r1[1] = r2[1] => r1[2] = r2[2]

\* Thread t holds the client a pool resolution gave it.
Resolving(t) == loc[t].key # "" /\ loc[t].client # NoClient

\* C3: one operation at a time, a resolution of a stored key returns the
\* stored handle and constructs nothing, a resolution of an absent key
\* constructs one client, stores it under the key and returns it; two
\* resolutions of identical tuples obtain the same handle; a stored key's
\* handle is never replaced or removed.
C3_SequentialResolve ==
    /\ [](/\ \A t \in Threads :
                Resolving(t) =>
                    /\ PoolHas(pool, loc[t].key)
                    /\ PoolGet(pool, loc[t].key) = loc[t].client
                    /\ loc[t].built \in {0, 1}
                    /\ loc[t].built = 1 => clients[loc[t].client] = loc[t].tup
          /\ \A r1, r2 \in resolved : r1[1] = r2[1] => r1[2] = r2[2]
          /\ \A i, j \in 1 .. Len(clients) :
                KeyOf(clients[i]) = KeyOf(clients[j]) => i = j)
    /\ [][/\ \A e \in pool : e \in pool'
          /\ Len(clients') # Len(clients) =>
                \E t \in Threads :
                    /\ pc[t] = "construct"
                    /\ ~PoolHas(pool, loc[t].key)
                    /\ Len(clients') = Len(clients) + 1
                    /\ pool' = pool \cup {<<loc[t].key, Len(clients')>>}
                    /\ loc'[t].client = Len(clients')]_vars

\* A read that resolved through the environment and was handed, without a
\* construction of its own, the client class B's wiring had pooled.
C3_Witness ==
    \E t \in Threads :
        /\ ReadDone(t) /\ Resolving(t) /\ loc[t].built = 0
        /\ clsState["B"] = "ready"
        /\ decl["B"].wiring = "params" /\ decl["B"].params = env
        /\ loc[t].client = clsClient["B"]

\* Class c has been constructed from endpoint parameters alone.
WiredByParams(c) ==
    clsState[c] = "ready" /\ decl[c].wiring = "params" /\ Complete(decl[c].params)

\* C4 as stated: two subclasses whose parameter tuples differ in any field
\* have distinct pool keys and distinct handles.
C4_DistinctTuplesDistinctHandles ==
    \A c1, c2 \in Classes :
        (WiredByParams(c1) /\ WiredByParams(c2)
         /\ decl[c1].params # decl[c2].params) =>
            /\ KeyOf(decl[c1].params) # KeyOf(decl[c2].params)
            /\ clsClient[c1] # clsClient[c2]

\* C5: with no validation binding, a read whose fetch raised returns the
\* default (the result of calling it if it is a factory) and does not raise.
C5_FetchErrorGivesDefault ==
    \A t \in Threads :
        (ReadDone(t) /\ loc[t].fetchErr
         /\ prop[loc[t].cls].dynamic_model = NoModel) =>
            LET d == prop[loc[t].cls].default_value
            IN /\ loc[t].result.kind # "raise"
               /\ loc[t].result = IF d.kind = "callable" THEN PyInt(d.n) ELSE d

\* A failed fetch answered by the result of calling the factory default.
C5_Witness ==
    \E t \in Threads :
        /\ ReadDone(t) /\ loc[t].fetchErr
        /\ prop[loc[t].cls].dynamic_model = NoModel
        /\ prop[loc[t].cls].default_value = PyCallable(9)
        /\ loc[t].result = PyInt(9)

\* C6 as stated: with a validation binding, a read whose raw value is absent
\* (absent or empty remote value, failed fetch) does not raise, whatever the
\* declared default.
C6_AbsentNeverRaises ==
    \A t \in Threads :
        (ReadDone(t) /\ prop[loc[t].cls].dynamic_model # NoModel
         /\ ~TruthyStr(loc[t].val)) =>
            loc[t].result.kind # "raise"

\* The raw text conforms to the declared shape.
Conforms(shape, raw) ==
    \/ shape = "int" /\ raw = "42"
    \/ shape = "Person" /\ raw = "{\"age\": 5}"

\* C7: with a validation binding, a read whose raw value is present and does
\* not conform to the declared shape raises (the validation error, or the
\* JSON error of the parse that precedes it) and returns no default, whether
\* the raw value was fetched or cached.
C7_MalformedRaises ==
    \A t \in Threads :
        LET p == prop[loc[t].cls]
        IN (ReadDone(t) /\ p.dynamic_model # NoModel /\ TruthyStr(loc[t].val)
            /\ ~Conforms(p.dynamic_model.shape, loc[t].val)) =>
               /\ loc[t].result.kind = "raise"
               /\ loc[t].result.s \in {"ValidationError", "JSONDecodeError"}

\* A cached "not-a-number" read through an int binding raises.
C7_Witness ==
    \E t \in Threads :
        /\ ReadDone(t) /\ ~loc[t].fetched
        /\ prop[loc[t].cls].dynamic_model.shape = "int"
        /\ loc[t].val = "not-a-number"
        /\ loc[t].result = PyRaise("ValidationError")

\* C8 as stated: a read of a property with no wired endpoint under an
\* incomplete environment raises the missing-endpoint error.
C8_MissingEndpointRaises ==
    \A t \in Threads :
        (ReadDone(t) /\ loc[t].noClient) => loc[t].result = PyRaise("Exception")

\* Thread t has just made an assignment to a declared property attribute.
Assigned(t) ==
    /\ pc[t] = "done"
    /\ loc[t].op \in {"set_instance", "set_class"}
    /\ clsDict[loc[t].cls][loc[t].attr] = PropAttr

\* C9: an assignment to a declared property attribute, on an instance or on
\* the owning class, wired or not, raises the immutability error and leaves
\* the attribute bound to the property and the property unchanged.
C9_AssignmentRaises ==
    /\ [](\A t \in Threads :
             Assigned(t) => loc[t].result = PyRaise("AttributeError"))
    /\ [][\A t \in Threads :
             (pc[t] = "idle" /\ pc'[t] = "done"
              /\ loc'[t].op \in {"set_instance", "set_class"}) =>
                 clsDict' = clsDict /\ prop' = prop]_vars

\* A rejected class-level assignment to the property of a wired class.
C9_Witness ==
    \E t \in Threads :
        /\ Assigned(t) /\ loc[t].op = "set_class"
        /\ prop[loc[t].cls].nacos_client # NoClient
        /\ loc[t].result = PyRaise("AttributeError")

\* C10 as stated: once construction of a class completes, a cacheEnabled
\* property it wired to endpoint E has its callback registered on E.
C10_CallbackOnWiredEndpoint ==
    \A c \in Classes :
        (clsState[c] = "ready" /\ prop[c].exists /\ prop[c].read_from_cache
         /\ prop[c].nacos_client # NoClient) =>
            <<prop[c].nacos_client, c>> \in watchers

\* C11 as stated: when register_update_callback fails inside the class
\* statement (no client wired or resolvable, or add_config_watcher raises),
\* the class statement still completes without raising and leaves the class
\* usable.
C11_RegistrationFailureTolerated ==
    \A t \in Threads :
        (pc[t] = "done" /\ loc[t].op = "class") =>
            /\ loc[t].result.kind # "raise"
            /\ clsState[loc[t].cls] = "ready"

\* C12 as stated: every read() of a property with read_from_cache false
\* calls get_config and derives its result from the outcome of that call;
\* a read() of a property with read_from_cache true calls get_config only
\* when it found cache_value absent.
C12_FetchUnlessCached ==
    \A t \in Threads :
        LET p == prop[loc[t].cls]
        IN ReadDone(t) =>
              /\ ~p.read_from_cache =>
                    /\ loc[t].fetched
                    /\ loc[t].result = Derive(p, loc[t].val)
              /\ (p.read_from_cache /\ loc[t].fetched) => ~loc[t].sawCache

\* C12 amended: the same for every read() that obtained a client; a read()
\* for which _get_nacos_client raised calls get_config not at all.
C12_FetchUnlessCachedOrNoClient ==
    \A t \in Threads :
        LET p == prop[loc[t].cls]
        IN ReadDone(t) =>
              /\ (~p.read_from_cache /\ ~loc[t].noClient) =>
                    /\ loc[t].fetched
                    /\ loc[t].result = Derive(p, loc[t].val)
              /\ loc[t].noClient => ~loc[t].fetched
              /\ (p.read_from_cache /\ loc[t].fetched) => ~loc[t].sawCache

\* A read() of a property with read_from_cache false found a cached value,
\* called get_config all the same and returned what the empty answer gives.
C12_Witness ==
    \E t \in Threads :
        /\ ReadDone(t) /\ ~prop[loc[t].cls].read_from_cache
        /\ loc[t].sawCache /\ loc[t].fetched /\ ~loc[t].fetchErr
        /\ loc[t].val = ""
        /\ loc[t].result = Derive(prop[loc[t].cls], "")

\* C13: cache_value changes only in update_cache_val and in the store of a
\* read() that was not served from the cache and whose get_config returned;
\* a read() served from the cache, and a read() whose get_config or
\* _get_nacos_client raised, leave it as it was.
C13_CacheWriters ==
    [][\A c \in Classes :
          LET same == prop'[c].cache_value = prop[c].cache_value
              delivered == /\ pc' = pc
                           /\ intact'[c]
                           /\ lastPush'[c] = prop'[c].cache_value
              stored == \E t \in Threads :
                           /\ pc[t] = "store" /\ pc'[t] = "done"
                           /\ loc[t].cls = c
                           /\ ~(prop[c].read_from_cache /\ loc[t].sawCache)
                           /\ loc[t].fetched /\ ~loc[t].fetchErr
                           /\ prop'[c].cache_value = loc[t].val
          IN /\ same \/ delivered \/ stored
             /\ \A t \in Threads :
                   (/\ pc[t] # "done" /\ pc'[t] = "done"
                    /\ loc'[t].op = "read" /\ loc'[t].cls = c
                    /\ \/ pc[t] = "load"
                       \/ loc'[t].fetchErr
                       \/ loc'[t].noClient) => same]_vars

\* A read() found a cached value, its get_config raised, and the cached
\* value is still there.
C13_Witness ==
    \E t \in Threads :
        /\ ReadDone(t) /\ loc[t].fetchErr /\ loc[t].sawCache
        /\ TruthyStr(prop[loc[t].cls].cache_value)

\* C14: dynamic_model and should_json_data are set at most once, by the
\* __init_subclass__ of the class that declares the property, and
\* default_value never after the property exists: no read(), update,
\* rejected assignment or later class statement, that of a subclass of the
\* owning class included, changes any of them.
C14_BindingSetOnce ==
    [][\A c \in Classes :
          LET bound == /\ prop'[c].dynamic_model = prop[c].dynamic_model
                       /\ prop'[c].should_json_data = prop[c].should_json_data
          IN /\ prop[c].exists =>
                   prop'[c].default_value = prop[c].default_value
             /\ clsState[c] = "ready" => bound
             /\ ~bound =>
                   /\ prop[c].dynamic_model = NoModel
                   /\ \E t \in Threads : pc[t] = "wire" /\ loc[t].cls = c]_vars

\* The owning class has its model; a subclass of it that annotates the same
\* name differently has been wired, and an update has been delivered.
C14_Witness ==
    /\ clsState["B"] = "ready" /\ decl["B"].base = "A"
    /\ decl["B"].annot = "Person" /\ clsClient["B"] # NoClient
    /\ prop["A"].dynamic_model = CreateModel("int", PyInt(7))
    /\ lastPush["A"] # NoPush

\* A class statement that passes nacos_client or the parameters.
Wired(c) == clsState[c] = "ready" /\ decl[c].hasProp /\ decl[c].wiring # "none"

\* C15: once a class that is wired and whose body has annotations exists,
\* its property, annotated or not, holds the client __init_subclass__
\* resolved, and every read() that calls get_config calls it on that client
\* without resolving one from the environment.
C15_AnnotatedClassWiresAll ==
    \A c \in Classes :
        (Wired(c) /\ decl[c].annot # "none") =>
            /\ clsClient[c] # NoClient
            /\ prop[c].nacos_client = clsClient[c]
            /\ \A t \in Threads :
                  InRead(t, c) =>
                     /\ loc[t].key = "" /\ loc[t].tup = NoEnv
                     /\ loc[t].built = 0 /\ ~loc[t].noClient
                     /\ loc[t].fetched => loc[t].client = clsClient[c]

\* The property is not annotated, another attribute is; the environment
\* names a server, and the read() fetched through the client the class
\* statement passed.
C15_Witness ==
    \E t \in Threads :
        /\ ReadDone(t) /\ loc[t].fetched /\ Complete(env)
        /\ decl[loc[t].cls].annot = "other"
        /\ decl[loc[t].cls].wiring = "client"
        /\ loc[t].client = Prebuilt

\* C16 as stated: the property of a wired class that has no annotation of
\* its own never holds a client, and its read() resolves one from the
\* environment, both when the class body has no annotations and when it
\* annotates other attributes only.
C16_UnannotatedNeverWired ==
    \A c \in Classes :
        (Wired(c) /\ decl[c].annot \in {"none", "other"}) =>
            /\ prop[c].nacos_client = NoClient
            /\ \A t \in Threads :
                  (InRead(t, c) /\ loc[t].fetched) => loc[t].key # ""

\* C16 amended: that holds when the class body has no annotations, inherits
\* none and runs before Python 3.10; when it annotates other attributes
\* only, or runs on Python 3.10 or later, the property holds the client
\* __init_subclass__ resolved and its read() uses it.
C16_UnannotatedWiredUnlessNoAnnotations ==
    \A c \in Classes :
        (Wired(c) /\ decl[c].annot \in {"none", "other"}) =>
            IF decl[c].annot = "none" /\ ~py310
            THEN /\ prop[c].nacos_client = NoClient
                 /\ \A t \in Threads :
                       (InRead(t, c) /\ loc[t].fetched) => loc[t].key # ""
            ELSE /\ prop[c].nacos_client = clsClient[c]
                 /\ clsClient[c] # NoClient
                 /\ \A t \in Threads :
                       (InRead(t, c) /\ loc[t].fetched) =>
                           loc[t].client = clsClient[c] /\ loc[t].key = ""

\* Before Python 3.10 a class without annotations was passed a client, and
\* the read() of its property fetched through the client of the environment.
C16_Witness ==
    \E t \in Threads :
        /\ ReadDone(t) /\ loc[t].fetched /\ loc[t].key = KeyOf(env)
        /\ ~py310 /\ decl[loc[t].cls].annot = "none"
        /\ decl[loc[t].cls].wiring = "client"
        /\ clsClient[loc[t].cls] = Prebuilt

\* C17 as stated: a class statement that passes nacos_client constructs no
\* client and stores nothing in nacos_client_pool, with or without the
\* parameters beside it, and its property holds exactly that client.
C17_PrebuiltLeavesPool ==
    \A t \in Threads :
        LET c == loc[t].cls
        IN (/\ pc[t] = "done" /\ loc[t].op = "class"
            /\ loc[t].result.kind # "raise"
            /\ decl[c].wiring \in {"client", "both"}) =>
               /\ loc[t].built = 0
               /\ clsClient[c] = Prebuilt
               /\ decl[c].hasProp => prop[c].nacos_client = Prebuilt

\* C18 as stated: under every interleaving of read() and update_cache_val
\* on a property with read_from_cache true, no read() whose get_config had
\* returned before an update was delivered replaces the non-empty content
\* of that update in cache_value.
C18_NoStaleOverwrite ==
    \A t \in Threads :
        (ReadDone(t) /\ prop[loc[t].cls].read_from_cache) => ~loc[t].clobber

\* C18 amended: non-empty content delivered by an update is replaced in
\* cache_value only by a later update or by the store of a read() that
\* tested the cache before the update was delivered; a read() that starts
\* after the delivery never replaces it.
C18_OverwriteOnlyByEarlierRead ==
    [][\A c \in Classes :
          (/\ prop[c].read_from_cache
           /\ intact[c] /\ TruthyStr(lastPush[c])
           /\ prop'[c].cache_value # prop[c].cache_value) =>
              \/ pc' = pc /\ intact'[c]
              \/ \E t \in Threads :
                    /\ pc[t] = "store" /\ pc'[t] = "done" /\ loc[t].cls = c
                    /\ ~(loc[t].fresh /\ loc[t].clean)]_vars

\* A read() fetched, an update was delivered, and the read() then stored
\* its older value over the content of the update.
C18_Witness ==
    \E t \in Threads :
        /\ ReadDone(t) /\ prop[loc[t].cls].read_from_cache
        /\ loc[t].clobber /\ TruthyStr(lastPush[loc[t].cls])
        /\ prop[loc[t].cls].cache_value # lastPush[loc[t].cls]

\* C19 as stated, at the states where nothing is left to happen: the
\* property of a class wired to a client has read_from_cache true, the
\* content on that client's server changed to a non-empty v while
\* cache_value was set, every notification the service owed has been
\* delivered, and a read() that started after all that returns the value
\* derived from v.
C19_SettledReadIsCurrent ==
    \A t \in Threads :
        LET c == loc[t].cls
            p == prop[c]
        IN (/\ ReadDone(t) /\ loc[t].quiet /\ pending = {}
            /\ p.read_from_cache /\ p.nacos_client # NoClient
            /\ p.nacos_client = clsClient[c]
            /\ TruthyStr(remote[ServerOf(p.nacos_client)])) =>
               loc[t].result = Derive(p, remote[ServerOf(p.nacos_client)])

\* C20 as stated: assigning a class attribute that is not a
\* NacosConfigProperty, a new name or an existing plain attribute, does not
\* raise, and the class then holds the assigned value under that name.
C20_PlainAssignmentStored ==
    \A t \in Threads :
        LET c == loc[t].cls
        IN (/\ pc[t] = "done" /\ loc[t].op = "set_class"
            /\ clsDict[c][loc[t].attr] # PropAttr) =>
               /\ loc[t].result.kind # "raise"
               /\ clsDict[c][loc[t].attr] \in AttrValues
====
